---------------------------- MODULE Spec2Model ----------------------------
(***************************************************************************)
(* Model of the document insight engine (src/app): outline extraction,     *)
(* section segmentation, text chunking, relevance ranking and the batch    *)
(* orchestration around them.                                              *)
(*                                                                         *)
(* Texts are sequences of atoms.  An atom is either a whitespace atom      *)
(* (" ", "\n", "\t") or a piece of non-whitespace text.  str.split() yields    *)
(* the maximal runs of non-whitespace atoms, ' '.join() puts one " "       *)
(* between them.                                                           *)
(*                                                                         *)
(* The specifications of the module:                                       *)
(*   SpecChunk    utils.chunk_text, the loop unrolled one iteration a step *)
(*   SpecChunkFair  the same, with the call's steps weakly fair            *)
(*   SpecOutline  OutlineExtractor.extract_outline over one document       *)
(*   SpecTitle    the same over documents of body and title sized blocks   *)
(*   SpecHeading  the same over one-page documents of heading styles       *)
(*   Spec         main() in mode "both": the parallel outline pass         *)
(*                followed by the persona ranking pass                     *)
(*   SpecScore    PersonaRanker._calculate_section_score on one section    *)
(***************************************************************************)
EXTENDS Integers, Sequences, FiniteSets, TLC

VARIABLES
    \* ---- utils.chunk_text
    text,          \* the argument text
    max_tokens,    \* the argument max_tokens
    overlap,       \* the argument overlap
    words,         \* local: text.split()
    start,         \* local: start index (0-based) of the current window
    chunks,        \* local / result: the chunk list
    windows,       \* history: the <<start, end>> of every emitted chunk
    ck_pc,         \* "idle" | "call" | "loop" | "done"
    \* ---- OutlineExtractor.extract_outline on one document
    ol_doc,        \* the document behind pdf_path
    ol_result,     \* what the call returned or raised
    ol_pc,         \* "idle" | "call" | "done"
    \* ---- main(), mode "both"
    pdf_files,     \* the documents input_dir.glob("*.pdf") found; the name of
                   \* the i-th is i
    max_workers,   \* the --max-workers argument
    main_pc,       \* "idle" | "start" | "submit" | "collect" | "1b" | "rank" | "done"
    submitted,     \* process_all_pdfs: tasks handed to the executor so far
    task,          \* executor: per document "new" | "queued" | "running" | "finished"
    future,        \* executor: per document the outcome of its finished task
    yielded,       \* as_completed: the futures the for loop has handled
    sink,          \* the output directory: path -> content written
    writes,        \* history: path -> number of times it was written
    query,         \* process_persona_query: [persona, job]
    valid_pdfs,    \* process_round_1b: names of the PDFs that validate
    rk_i,          \* rank_sections: position in pdf_paths
    all_sections,  \* rank_sections: the sections gathered
    similarities,  \* _rank_sections_by_relevance: the backend's answer
    sim_failed,    \* history: the similarity backend raised
    ranked,        \* _rank_sections_by_relevance: ranked_sections
    score_runs,    \* history: calls of _rank_sections_by_relevance
    rk_result,     \* what process_round_1b returned
    \* ---- PersonaRanker._calculate_section_score on one section
    sc_section,    \* the argument section: its level and text
    sc_similarity, \* the argument similarity, in hundredths
    sc_query,      \* the argument query
    sc_score,      \* the score returned, in ten-thousandths
    sc_boost,      \* the content boost it used, in hundredths
    sc_pc          \* "idle" | "call" | "done"

ckvars == <<text, max_tokens, overlap, words, start, chunks, windows, ck_pc>>

olvars == <<ol_doc, ol_result, ol_pc>>

poolvars == <<pdf_files, max_workers, main_pc, submitted, task, future, yielded,
              sink, writes>>

rankvars == <<query, valid_pdfs, rk_i, all_sections, similarities, sim_failed,
              ranked, score_runs, rk_result>>

mainvars == <<poolvars, rankvars>>

scvars == <<sc_section, sc_similarity, sc_query, sc_score, sc_boost, sc_pc>>

vars == <<ckvars, olvars, mainvars, scvars>>

---------------------------------------------------------------------------
(* Bounds of the model *)

MaxTextLen == 7        \* atoms in a chunk_text input
MaxTokens == 3         \* largest max_tokens tried
MaxChunks == 5         \* chunks a chunk_text call is followed for
MaxBlocks == 3         \* text blocks of a document in SpecOutline
MaxTitleBlocks == 5    \* text blocks of a document in SpecTitle
MaxHeadingBlocks == 4  \* text blocks of a document in SpecHeading
MaxPage == 2           \* pages of a document in SpecOutline
MaxDocs == 3           \* PDF files in the input directory
MaxWorkers == 2        \* largest --max-workers tried

---------------------------------------------------------------------------
(* The parts of the state a specification does not use stay idle *)

ChunkIdle ==
    /\ text = <<>> /\ max_tokens = 0 /\ overlap = 0 /\ words = <<>>
    /\ start = 0 /\ chunks = <<>> /\ windows = <<>> /\ ck_pc = "idle"

OutlineIdle == ol_doc = <<>> /\ ol_result = <<>> /\ ol_pc = "idle"

MainIdle ==
    /\ pdf_files = <<>> /\ max_workers = 0 /\ main_pc = "idle" /\ submitted = 0
    /\ task = <<>> /\ future = <<>> /\ yielded = {} /\ sink = <<>>
    /\ writes = <<>> /\ query = <<>> /\ valid_pdfs = <<>> /\ rk_i = 0
    /\ all_sections = <<>> /\ similarities = <<>> /\ sim_failed = FALSE
    /\ ranked = <<>> /\ score_runs = 0 /\ rk_result = <<>>

ScoreIdle ==
    /\ sc_section = <<>> /\ sc_similarity = 0 /\ sc_query = <<>>
    /\ sc_score = 0 /\ sc_boost = 0 /\ sc_pc = "idle"

---------------------------------------------------------------------------
(* Generic helpers *)

Min(a, b) == IF a <= b THEN a ELSE b

Max(a, b) == IF a >= b THEN a ELSE b

Range(s) == {s[i] : i \in 1..Len(s)}

SeqsUpTo(S, n) == UNION {[1..k -> S] : k \in 0..n}

RECURSIVE Flatten(_)
Flatten(ss) == IF ss = <<>> THEN <<>> ELSE Head(ss) \o Flatten(Tail(ss))

---------------------------------------------------------------------------
(* Strings *)

Whitespace == {" ", "\n", "\t"}

\* str.split(): the maximal runs of non-whitespace atoms, in order.
\* acc is the word being read.
RECURSIVE SplitFrom(_, _)
SplitFrom(t, acc) ==
    IF t = <<>> THEN (IF acc = <<>> THEN <<>> ELSE <<acc>>)
    ELSE IF Head(t) \in Whitespace
         THEN (IF acc = <<>> THEN <<>> ELSE <<acc>>) \o SplitFrom(Tail(t), <<>>)
         ELSE SplitFrom(Tail(t), Append(acc, Head(t)))

Split(t) == SplitFrom(t, <<>>)

\* ' '.join(ws)
RECURSIVE Join(_)
Join(ws) ==
    IF ws = <<>> THEN <<>>
    ELSE IF Len(ws) = 1 THEN Head(ws)
    ELSE Head(ws) \o <<" ">> \o Join(Tail(ws))

\* words[a:b] for 0 <= a, with Python's clamping of b
Slice(ws, a, b) == SubSeq(ws, a + 1, Min(b, Len(ws)))

\* the str a text stands for: its atoms one after the other
RECURSIVE Str(_)
Str(t) == IF t = <<>> THEN "" ELSE Head(t) \o Str(Tail(t))

\* the i-th character of the str s
CharAt(s, i) == SubSeq(s, i, i)

LowerOf ==
    [c \in {"A", "B", "C", "D", "E", "F", "G", "H", "I", "J", "K", "L", "M",
            "N", "O", "P", "Q", "R", "S", "T", "U", "V", "W", "X", "Y", "Z"} |->
        CASE c = "A" -> "a" [] c = "B" -> "b" [] c = "C" -> "c" [] c = "D" -> "d"
          [] c = "E" -> "e" [] c = "F" -> "f" [] c = "G" -> "g" [] c = "H" -> "h"
          [] c = "I" -> "i" [] c = "J" -> "j" [] c = "K" -> "k" [] c = "L" -> "l"
          [] c = "M" -> "m" [] c = "N" -> "n" [] c = "O" -> "o" [] c = "P" -> "p"
          [] c = "Q" -> "q" [] c = "R" -> "r" [] c = "S" -> "s" [] c = "T" -> "t"
          [] c = "U" -> "u" [] c = "V" -> "v" [] c = "W" -> "w" [] c = "X" -> "x"
          [] c = "Y" -> "y" [] c = "Z" -> "z"]

\* str.lower() of one character: the only cased characters of the texts are
\* the letters A-Z and a-z
LowerChar(c) == IF c \in DOMAIN LowerOf THEN LowerOf[c] ELSE c

\* the text is not lowered: matching is case-sensitive
LowerNone(s) == s

\* str.lower(), from the i-th character on
RECURSIVE LowerFrom(_, _)
LowerFrom(s, i) ==
    IF i > Len(s) THEN "" ELSE LowerChar(CharAt(s, i)) \o LowerFrom(s, i + 1)

Lower(s) == LowerFrom(s, 1)

\* kw in s
Contains(s, kw) ==
    \E i \in 1..(Len(s) - Len(kw) + 1) : SubSeq(s, i, i + Len(kw) - 1) = kw

---------------------------------------------------------------------------
(* Documents.                                                              *)
(* A document is what the text extraction engine (PyMuPDF) gives for a     *)
(* file: whether it opens, its page count, the line blocks of all pages in *)
(* the order _extract_page_blocks appends them (page by page), the raw     *)
(* text of every page, and the pages whose get_text() raises.              *)
(* Font sizes are whole numbers of points; a font ratio r >= q is compared *)
(* exactly, as 20 * fontsize >= (10 q) * (2 * median).                     *)

T_Intro == <<"I", "n", "t", "r", "o">>
T_Note == <<"n", "o", "t", "e">>
T_Body == <<"a", "b">>
T_Scope == <<"S", "c", "o", "p", "e">>
T_Title == <<"T", "i", "t", "l", "e">>
T_Report == <<"R", "e", "p", "o", "r", "t">>
T_Annex == <<"A", "n", "n", "e", "x">>
T_Caps70 == <<"A", "B", "C", "D", "E", "F", "G", "h", "i", "j">>
T_Caps80 == <<"A", "B", "C", "D", "E", "F", "G", "H", "i", "j">>
T_Caps2 == <<"A", "B">>
T_Numbered == <<"1", ".", "a">>

UpperChars == {"A", "B", "C", "D", "E", "F", "G", "H", "I", "J", "K", "L", "M",
               "N", "O", "P", "Q", "R", "S", "T", "U", "V", "W", "X", "Y", "Z"}

DigitChars == {"0", "1", "2", "3", "4", "5", "6", "7", "8", "9"}

Block(t, fs, bold, x, p, y) ==
    [text |-> t, fontsize |-> fs, is_bold |-> bold, x_position |-> x,
     page |-> p, y_position |-> y]

Document(file, n, bs, pt, bad) ==
    [file |-> file, npages |-> n, blocks |-> bs, page_text |-> pt, bad_pages |-> bad]

\* fitz.open(pdf_path) succeeds
Opens(doc) == doc.file = "ok"

---------------------------------------------------------------------------
(* statistics.median *)

RECURSIVE InsertInt(_, _)
InsertInt(s, x) ==
    IF s = <<>> THEN <<x>>
    ELSE IF x < Head(s) THEN <<x>> \o s
    ELSE <<Head(s)>> \o InsertInt(Tail(s), x)

RECURSIVE SortInts(_)
SortInts(s) == IF s = <<>> THEN <<>> ELSE InsertInt(SortInts(Tail(s)), Head(s))

\* twice the median of a non-empty list: the middle value, or the mean of the
\* two middle values
Median2(sizes) ==
    LET srt == SortInts(sizes)
        n == Len(srt)
    IN  IF n % 2 = 1 THEN 2 * srt[(n + 1) \div 2]
        ELSE srt[n \div 2] + srt[n \div 2 + 1]

\* fontsize / median >= q10 / 10
RatioAtLeast(fontsize, med2, q10) == 20 * fontsize >= q10 * med2

---------------------------------------------------------------------------
(* OutlineExtractor *)

min_title_font_ratio == 18
min_heading_font_ratio == 10
min_h1_font_ratio == 14
min_h2_font_ratio == 12

\* max(first_page_blocks, key=fontsize): the first block with the largest size
FirstMaxFontIdx(s) ==
    CHOOSE i \in 1..Len(s) :
        /\ \A j \in 1..Len(s) : s[j].fontsize <= s[i].fontsize
        /\ \A j \in 1..(i - 1) : s[j].fontsize < s[i].fontsize

\* the candidate taken is the one of the largest font
LargestFontCandidateIdx(s) == FirstMaxFontIdx(s)

\* min(title_candidates, key=y_position): the first block with the smallest y
FirstMinYIdx(s) ==
    CHOOSE i \in 1..Len(s) :
        /\ \A j \in 1..Len(s) : s[j].y_position >= s[i].y_position
        /\ \A j \in 1..(i - 1) : s[j].y_position > s[i].y_position

_extract_title(blocks, med2) ==
    LET first_page_blocks == SelectSeq(blocks, LAMBDA b : b.page = 1)
        large == SelectSeq(first_page_blocks,
                    LAMBDA b : RatioAtLeast(b.fontsize, med2, min_title_font_ratio))
        title_candidates ==
            IF large = <<>>
            THEN <<first_page_blocks[FirstMaxFontIdx(first_page_blocks)]>>
            ELSE large
    IN  IF blocks = <<>> \/ first_page_blocks = <<>> THEN <<>>
        ELSE title_candidates[FirstMinYIdx(title_candidates)].text

\* the margin test takes the margin itself
_is_centered_inclusive(block) == block.x_position >= 100

_is_centered(block) == block.x_position > 100

UpperCount(t) == Cardinality({i \in 1..Len(t) : t[i] \in UpperChars})

_is_capitalized(t) ==
    IF Len(t) < 3 THEN FALSE ELSE 10 * UpperCount(t) > 7 * Len(t)

\* the number of leading atoms of t that are in S
RECURSIVE PrefixLen(_, _)
PrefixLen(t, S) ==
    IF t = <<>> \/ Head(t) \notin S THEN 0 ELSE 1 + PrefixLen(Tail(t), S)

Drop(t, n) == SubSeq(t, n + 1, Len(t))

_is_numbered_heading(t) ==
    LET d == PrefixLen(t, DigitChars)
        rest == Drop(t, d)
        sp == PrefixLen(rest, Whitespace)
    IN  \/ d >= 1 /\ rest # <<>> /\ Head(rest) = "."
        \/ d >= 1 /\ sp >= 1 /\ Drop(rest, sp) # <<>> /\ Head(Drop(rest, sp)) \in UpperChars
        \/ Len(t) >= 2 /\ t[1] \in UpperChars /\ t[2] = "."
        \/ d >= 1 /\ rest # <<>> /\ Head(rest) = "." /\ PrefixLen(Tail(rest), DigitChars) >= 1

_is_heading_candidate(block, med2) ==
    \/ RatioAtLeast(block.fontsize, med2, min_heading_font_ratio)
    \/ block.is_bold
    \/ _is_centered(block)
    \/ _is_capitalized(block.text)
    \/ _is_numbered_heading(block.text)

\* the thresholds are compared strictly
_determine_heading_level_strict(block, med2) ==
    IF 20 * block.fontsize > min_h1_font_ratio * med2 THEN "H1"
    ELSE IF 20 * block.fontsize > min_h2_font_ratio * med2 THEN "H2"
    ELSE "H3"

_determine_heading_level(block, med2) ==
    IF RatioAtLeast(block.fontsize, med2, min_h1_font_ratio) THEN "H1"
    ELSE IF RatioAtLeast(block.fontsize, med2, min_h2_font_ratio) THEN "H2"
    ELSE "H3"

\* The y the sort of line 174 uses for a heading: that of
\* blocks[blocks.index(next(b for b in blocks if b["text"] == x["text"]))].
\* next(b for b in blocks if b["text"] == t): the first block with that text
FirstIdxWithText(blocks, t) ==
    CHOOSE i \in 1..Len(blocks) :
        blocks[i].text = t /\ \A j \in 1..(i - 1) : blocks[j].text # t

\* blocks.index(b): the first block equal to b
IndexOf(blocks, b) ==
    CHOOSE i \in 1..Len(blocks) : blocks[i] = b /\ \A j \in 1..(i - 1) : blocks[j] # b

LookupY(blocks, h) ==
    blocks[IndexOf(blocks, blocks[FirstIdxWithText(blocks, h.text)])].y_position

HeadingKey(blocks, h) == <<h.page, LookupY(blocks, h)>>

\* tuple comparison of two (page, y) keys
KeyLess(a, b) == a[1] < b[1] \/ (a[1] = b[1] /\ a[2] < b[2])

\* list.sort(key=...): ascending and stable.  Insert x after every element
\* whose key is not greater.
RECURSIVE InsertHeading(_, _, _)
InsertHeading(s, x, blocks) ==
    IF s = <<>> THEN <<x>>
    ELSE IF KeyLess(HeadingKey(blocks, x), HeadingKey(blocks, Head(s)))
         THEN <<x>> \o s
         ELSE <<Head(s)>> \o InsertHeading(Tail(s), x, blocks)

RECURSIVE SortHeadingsFrom(_, _, _)
SortHeadingsFrom(done, todo, blocks) ==
    IF todo = <<>> THEN done
    ELSE SortHeadingsFrom(InsertHeading(done, Head(todo), blocks), Tail(todo), blocks)

\* A heading is the dict of lines 167-171; src is the index in blocks of the
\* block it was made from (history, not a key of the dict).
_extract_headings(blocks, med2) ==
    LET cand == SelectSeq([i \in 1..Len(blocks) |-> i],
                          LAMBDA i : _is_heading_candidate(blocks[i], med2))
        headings == [k \in 1..Len(cand) |->
                        [level |-> _determine_heading_level(blocks[cand[k]], med2),
                         text |-> blocks[cand[k]].text,
                         page |-> blocks[cand[k]].page,
                         src |-> cand[k]]]
    IN  SortHeadingsFrom(<<>>, headings, blocks)

Raised(msg) == [ok |-> FALSE, error |-> msg]

extract_outline(doc) ==
    IF ~Opens(doc) THEN Raised("cannot open")
    ELSE IF doc.npages = 0 THEN Raised("PDF has no pages")
    ELSE LET positive == SelectSeq(doc.blocks, LAMBDA b : b.fontsize > 0)
             font_sizes == [i \in 1..Len(positive) |-> positive[i].fontsize]
         IN  IF font_sizes = <<>>
             THEN Raised("No text with font size information found")
             ELSE [ok |-> TRUE,
                   title |-> _extract_title(doc.blocks, Median2(font_sizes)),
                   outline |-> _extract_headings(doc.blocks, Median2(font_sizes))]

---------------------------------------------------------------------------
(* SpecOutline: extract_outline on one document *)

BlockStyles ==
    {[text |-> T_Intro, fontsize |-> 14, is_bold |-> FALSE, x_position |-> 50],
     [text |-> T_Body, fontsize |-> 10, is_bold |-> FALSE, x_position |-> 50],
     [text |-> T_Note, fontsize |-> 8, is_bold |-> FALSE, x_position |-> 50]}

YPositions == {10, 50, 80}

OutlineBlocks ==
    {Block(s.text, s.fontsize, s.is_bold, s.x_position, p, y) :
        s \in BlockStyles, p \in 1..MaxPage, y \in YPositions}

\* _extract_page_blocks is called page by page: pages never decrease along
\* all_blocks.  Within a page the engine's block order is free.
PageOrdered(bs) == \A i \in 1..(Len(bs) - 1) : bs[i].page <= bs[i + 1].page

OutlineInit ==
    /\ \E bs \in SeqsUpTo(OutlineBlocks, MaxBlocks) :
          /\ PageOrdered(bs)
          /\ ol_doc = Document("ok", MaxPage, bs, <<>>, {})
    /\ ol_result = <<>>
    /\ ol_pc = "call"

OutlineCall ==
    /\ ol_pc = "call"
    /\ ol_result' = extract_outline(ol_doc)
    /\ ol_pc' = "done"
    /\ UNCHANGED ol_doc
    /\ UNCHANGED <<ckvars, mainvars, scvars>>

OutlineNext == OutlineCall

InitOutline == OutlineInit /\ ChunkIdle /\ MainIdle /\ ScoreIdle

SpecOutline == InitOutline /\ [][OutlineNext]_vars

---------------------------------------------------------------------------
(* C1 *)

OwnKey(doc, h) == <<h.page, doc.blocks[h.src].y_position>>

\* C1: the headings extract_outline returns are in ascending order of the
\* position key (page, y0) of each heading's own source block.
C1_HeadingsAscending ==
    (ol_pc = "done" /\ ol_result.ok) =>
        \A i, j \in 1..Len(ol_result.outline) :
            i < j => ~KeyLess(OwnKey(ol_doc, ol_result.outline[j]),
                              OwnKey(ol_doc, ol_result.outline[i]))
---------------------------------------------------------------------------
(* SpecTitle: extract_outline on one document of body and title sized      *)
(* blocks.  Two blocks of one document reach 1.8 times the median only      *)
(* from five blocks on.                                                     *)

TitleBlocks ==
    {Block(T_Body, 10, FALSE, 50, 1, 10),
     Block(T_Note, 10, FALSE, 50, 1, 50),
     Block(T_Intro, 18, FALSE, 50, 1, 10),
     Block(T_Scope, 18, FALSE, 50, 1, 50),
     Block(T_Title, 20, FALSE, 50, 1, 10),
     Block(T_Report, 20, FALSE, 50, 1, 50),
     Block(T_Annex, 20, FALSE, 50, 2, 10),
     Block(T_Body, 10, FALSE, 50, 2, 50)}

TitleInit ==
    /\ \E bs \in SeqsUpTo(TitleBlocks, MaxTitleBlocks) :
          /\ PageOrdered(bs)
          /\ ol_doc = Document("ok", 2, bs, <<>>, {})
    /\ ol_result = <<>>
    /\ ol_pc = "call"

InitTitle == TitleInit /\ ChunkIdle /\ MainIdle /\ ScoreIdle

SpecTitle == InitTitle /\ [][OutlineNext]_vars

---------------------------------------------------------------------------
(* C13 *)

\* twice the median font size of the document
DocMedian2(doc) == Median2([i \in 1..Len(doc.blocks) |-> doc.blocks[i].fontsize])

FirstPage(doc) == {i \in 1..Len(doc.blocks) : doc.blocks[i].page = 1}

\* the blocks of page 1 with fontSize / median >= 1.8
TitleSized(doc) ==
    {i \in FirstPage(doc) : 10 * doc.blocks[i].fontsize >= 9 * DocMedian2(doc)}

\* C13: the title comes from page 1 only.  If some block of page 1 has
\* fontSize / median >= 1.8, the title is the text of a topmost (least y0)
\* one of these blocks, whichever of them has the largest font; if none has,
\* it is the text of a largest-font block of page 1; if page 1 has no block
\* it is the empty string.
C13_TitleSelection ==
    (ol_pc = "done" /\ ol_result.ok) =>
        LET bs == ol_doc.blocks
            big == TitleSized(ol_doc)
            p1 == FirstPage(ol_doc)
        IN  /\ p1 = {} => ol_result.title = <<>>
            /\ big # {} =>
                   \E i \in big :
                       /\ ol_result.title = bs[i].text
                       /\ \A j \in big : bs[i].y_position <= bs[j].y_position
            /\ (big = {} /\ p1 # {}) =>
                   \E i \in p1 :
                       /\ ol_result.title = bs[i].text
                       /\ \A j \in p1 : bs[j].fontsize <= bs[i].fontsize

\* two blocks of page 1 reach the ratio, one of them at exactly 1.8; the
\* title is the upper one, which has the smaller font
C13_Witness ==
    /\ ol_pc = "done"
    /\ ol_result.ok
    /\ DocMedian2(ol_doc) = 20
    /\ \E i, j \in TitleSized(ol_doc) :
           /\ ol_doc.blocks[i].fontsize = 18
           /\ ol_doc.blocks[j].fontsize = 20
           /\ ol_doc.blocks[i].y_position < ol_doc.blocks[j].y_position
           /\ ol_result.title = ol_doc.blocks[i].text
           /\ ol_result.title # ol_doc.blocks[j].text
---------------------------------------------------------------------------
(* SpecHeading: extract_outline on one one-page document whose blocks are   *)
(* drawn from styles that meet the heading criteria one at a time           *)

HeadingStyles ==
    {[text |-> T_Body, fontsize |-> 10, is_bold |-> FALSE, x_position |-> 50],
     [text |-> T_Scope, fontsize |-> 12, is_bold |-> FALSE, x_position |-> 50],
     [text |-> T_Intro, fontsize |-> 14, is_bold |-> FALSE, x_position |-> 50],
     [text |-> T_Note, fontsize |-> 8, is_bold |-> FALSE, x_position |-> 100],
     [text |-> T_Note, fontsize |-> 8, is_bold |-> TRUE, x_position |-> 50],
     [text |-> T_Note, fontsize |-> 8, is_bold |-> FALSE, x_position |-> 101],
     [text |-> T_Caps70, fontsize |-> 8, is_bold |-> FALSE, x_position |-> 50],
     [text |-> T_Caps80, fontsize |-> 8, is_bold |-> FALSE, x_position |-> 50],
     [text |-> T_Caps2, fontsize |-> 8, is_bold |-> FALSE, x_position |-> 50],
     [text |-> T_Numbered, fontsize |-> 8, is_bold |-> FALSE, x_position |-> 50]}

\* the blocks of one page, from top to bottom
BlocksOfStyles(ss) ==
    [i \in 1..Len(ss) |->
        Block(ss[i].text, ss[i].fontsize, ss[i].is_bold, ss[i].x_position, 1, 10 * i)]

HeadingInit ==
    /\ \E ss \in SeqsUpTo(HeadingStyles, MaxHeadingBlocks) :
          ol_doc = Document("ok", 1, BlocksOfStyles(ss), <<>>, {})
    /\ ol_result = <<>>
    /\ ol_pc = "call"

InitHeading == HeadingInit /\ ChunkIdle /\ MainIdle /\ ScoreIdle

SpecHeading == InitHeading /\ [][OutlineNext]_vars

---------------------------------------------------------------------------
(* C14 *)

\* block i of the document is in the heading list, as one heading with the
\* block's text and page
Emitted(doc, outline, i) ==
    /\ Cardinality({k \in 1..Len(outline) : outline[k].src = i}) = 1
    /\ \A k \in 1..Len(outline) :
           outline[k].src = i =>
               /\ outline[k].text = doc.blocks[i].text
               /\ outline[k].page = doc.blocks[i].page

NotEmitted(outline, i) == \A k \in 1..Len(outline) : outline[k].src # i

\* the criteria other than the share of uppercase characters
OtherCriteria(doc, i) ==
    \/ 2 * doc.blocks[i].fontsize >= DocMedian2(doc)
    \/ doc.blocks[i].is_bold
    \/ doc.blocks[i].x_position > 100
    \/ _is_numbered_heading(doc.blocks[i].text)

\* at least 70 % of the characters are uppercase
UpperShareAtLeast70(t) == 10 * UpperCount(t) >= 7 * Len(t)

\* more than 70 % of the characters are uppercase
UpperShareAbove70(t) == 10 * UpperCount(t) > 7 * Len(t)

UniformFont(doc) ==
    \A i, j \in 1..Len(doc.blocks) : doc.blocks[i].fontsize = doc.blocks[j].fontsize

\* C14 as stated: a block is emitted as a heading if and only if its
\* fontSize / median >= 1.0, or it is bold, or x0 > 100, or at least 70 % of
\* its characters are uppercase and its text has 3 characters or more (70 %
\* exactly qualifies), or its text starts with a numbered-heading pattern;
\* so in a document of one font size every block is a heading.
C14_AsStated ==
    (ol_pc = "done" /\ ol_result.ok) =>
        /\ \A i \in 1..Len(ol_doc.blocks) :
               IF \/ OtherCriteria(ol_doc, i)
                  \/ /\ UpperShareAtLeast70(ol_doc.blocks[i].text)
                     /\ Len(ol_doc.blocks[i].text) >= 3
               THEN Emitted(ol_doc, ol_result.outline, i)
               ELSE NotEmitted(ol_result.outline, i)
        /\ UniformFont(ol_doc) =>
               \A i \in 1..Len(ol_doc.blocks) : Emitted(ol_doc, ol_result.outline, i)

\* C14, amended: as stated, except that the uppercase criterion asks for
\* more than 70 % of the characters (70 % exactly does not qualify).
C14_HeadingCriteria ==
    (ol_pc = "done" /\ ol_result.ok) =>
        /\ \A i \in 1..Len(ol_doc.blocks) :
               IF \/ OtherCriteria(ol_doc, i)
                  \/ /\ UpperShareAbove70(ol_doc.blocks[i].text)
                     /\ Len(ol_doc.blocks[i].text) >= 3
               THEN Emitted(ol_doc, ol_result.outline, i)
               ELSE NotEmitted(ol_result.outline, i)
        /\ UniformFont(ol_doc) =>
               \A i \in 1..Len(ol_doc.blocks) : Emitted(ol_doc, ol_result.outline, i)

\* below the median, a block with 8 uppercase characters of 10 is a heading
\* and a block with 7 of 10 is not
C14_Witness ==
    /\ ol_pc = "done"
    /\ ol_result.ok
    /\ \E i, j \in 1..Len(ol_doc.blocks) :
           /\ ol_doc.blocks[i].text = T_Caps70
           /\ ol_doc.blocks[j].text = T_Caps80
           /\ 2 * ol_doc.blocks[i].fontsize < DocMedian2(ol_doc)
           /\ 2 * ol_doc.blocks[j].fontsize < DocMedian2(ol_doc)
           /\ NotEmitted(ol_result.outline, i)
           /\ Emitted(ol_doc, ol_result.outline, j)

---------------------------------------------------------------------------
(* C15 *)

\* the level the claim gives a font size, by its ratio to the median
ClaimedLevel(fontsize, med2) ==
    IF 10 * fontsize >= 7 * med2 THEN "H1"
    ELSE IF 10 * fontsize >= 6 * med2 THEN "H2"
    ELSE "H3"

LevelDepth(level) == IF level = "H1" THEN 1 ELSE IF level = "H2" THEN 2 ELSE 3

\* C15: every heading has one level, given by the ratio of its block's font
\* size to the document median, first match first: >= 1.4 is H1 (1.4
\* included), >= 1.2 and < 1.4 is H2 (1.2 included), below is H3; so within
\* a document a heading of a larger font never has a deeper level.
C15_LevelThresholds ==
    (ol_pc = "done" /\ ol_result.ok) =>
        LET outline == ol_result.outline
            fs(k) == ol_doc.blocks[outline[k].src].fontsize
        IN  /\ \A k \in 1..Len(outline) :
                   /\ outline[k].level \in {"H1", "H2", "H3"}
                   /\ outline[k].level = ClaimedLevel(fs(k), DocMedian2(ol_doc))
            /\ \A k, l \in 1..Len(outline) :
                   fs(k) >= fs(l) =>
                       LevelDepth(outline[k].level) <= LevelDepth(outline[l].level)

\* one document with a heading at exactly 1.4 times the median (H1), one at
\* exactly 1.2 times (H2) and one below (H3)
C15_Witness ==
    /\ ol_pc = "done"
    /\ ol_result.ok
    /\ DocMedian2(ol_doc) = 20
    /\ \E k, l, m \in 1..Len(ol_result.outline) :
           /\ ol_doc.blocks[ol_result.outline[k].src].fontsize = 14
           /\ ol_result.outline[k].level = "H1"
           /\ ol_doc.blocks[ol_result.outline[l].src].fontsize = 12
           /\ ol_result.outline[l].level = "H2"
           /\ ol_doc.blocks[ol_result.outline[m].src].fontsize = 8
           /\ ol_result.outline[m].level = "H3"

---------------------------------------------------------------------------
(* utils.chunk_text *)

\* the start of the next window, from the end of the current one
NextStartNoOverlap(end, ov) == end

NextStart(end, ov) == end - ov

\* line 62: what a text of at most max_tokens words returns
WholeText(t, ws) == <<t>>

ChunkAlphabet == {"a", "b", " "}

ChunkInit ==
    /\ text \in SeqsUpTo(ChunkAlphabet, MaxTextLen)
    /\ max_tokens \in 1..MaxTokens
    /\ overlap \in 0..max_tokens
    /\ words = <<>>
    /\ start = 0
    /\ chunks = <<>>
    /\ windows = <<>>
    /\ ck_pc = "call"

\* lines 57-65: the early returns and the loop's set-up
ChunkEnter ==
    /\ ck_pc = "call"
    /\ IF text = <<>>
       THEN /\ chunks' = <<>>
            /\ words' = words
            /\ ck_pc' = "done"
       ELSE /\ words' = Split(text)
            /\ IF Len(Split(text)) <= max_tokens
               THEN /\ chunks' = WholeText(text, Split(text))
                    /\ ck_pc' = "done"
               ELSE /\ chunks' = <<>>
                    /\ ck_pc' = "loop"
    /\ start' = 0
    /\ windows' = <<>>
    /\ UNCHANGED <<text, max_tokens, overlap>>
    /\ UNCHANGED <<olvars, mainvars, scvars>>

\* lines 72-73 left out: the loop is left by its condition only
chunk_iter_no_break(ws, st, m, ov) ==
    IF st.start < Len(ws)
    THEN LET end == Min(st.start + m, Len(ws)) IN
         [start |-> NextStart(end, ov),
          chunks |-> Append(st.chunks, Join(Slice(ws, st.start, end))),
          windows |-> Append(st.windows, <<st.start, end>>),
          pc |-> "loop"]
    ELSE [st EXCEPT !.pc = "done"]

\* lines 67-75: one evaluation of the while condition and, if it holds, one
\* iteration of the body, on the locals st = [start, chunks, windows, pc]
chunk_iter(ws, st, m, ov) ==
    IF st.start < Len(ws)
    THEN LET end == Min(st.start + m, Len(ws)) IN
         [start |-> IF end >= Len(ws) THEN st.start ELSE NextStart(end, ov),
          chunks |-> Append(st.chunks, Join(Slice(ws, st.start, end))),
          windows |-> Append(st.windows, <<st.start, end>>),
          pc |-> IF end >= Len(ws) THEN "done" ELSE "loop"]
    ELSE [st EXCEPT !.pc = "done"]

\* With overlap >= max_tokens the loop does not end; it is followed up to
\* MaxChunks chunks.
ChunkIter ==
    /\ ck_pc = "loop"
    /\ Len(chunks) < MaxChunks
    /\ LET st == chunk_iter(words, [start |-> start, chunks |-> chunks,
                                    windows |-> windows, pc |-> ck_pc],
                            max_tokens, overlap)
       IN  /\ start' = st.start
           /\ chunks' = st.chunks
           /\ windows' = st.windows
           /\ ck_pc' = st.pc
    /\ UNCHANGED <<text, max_tokens, overlap, words>>
    /\ UNCHANGED <<olvars, mainvars, scvars>>

\* the whole call, for callers: the loop run to its end
RECURSIVE chunk_loop(_, _, _, _)
chunk_loop(ws, st, m, ov) ==
    IF st.pc = "done" THEN st.chunks ELSE chunk_loop(ws, chunk_iter(ws, st, m, ov), m, ov)

chunk_text(t, m, ov) ==
    IF t = <<>> THEN <<>>
    ELSE IF Len(Split(t)) <= m THEN WholeText(t, Split(t))
    ELSE chunk_loop(Split(t), [start |-> 0, chunks |-> <<>>, windows |-> <<>>,
                               pc |-> "loop"], m, ov)

ChunkNext == ChunkEnter \/ ChunkIter

InitChunk == ChunkInit /\ OutlineIdle /\ MainIdle /\ ScoreIdle

SpecChunk == InitChunk /\ [][ChunkNext]_vars

\* chunk_text runs in its caller's thread and nothing suspends it: a step
\* that can be taken is taken
SpecChunkFair == InitChunk /\ [][ChunkNext]_vars /\ WF_vars(ChunkNext)

---------------------------------------------------------------------------
(* C10 *)

\* the number of windows the closed form has: the least k >= 1 with
\* (k-1) * stride + max_tokens >= W
RECURSIVE WindowCount(_, _, _, _)
WindowCount(W, M, stride, k) ==
    IF (k - 1) * stride + M >= W THEN k ELSE WindowCount(W, M, stride, k + 1)

ClosedWindows(W, M, ov) ==
    [k \in 1..WindowCount(W, M, M - ov, 1) |->
        <<(k - 1) * (M - ov), Min((k - 1) * (M - ov) + M, W)>>]

WindowIdx(w) == {i \in 0..(Len(Split(text)) - 1) : w[1] <= i /\ i < w[2]}

\* C10: with 0 <= overlap < max_tokens, a finished chunk_text call on a text of
\* W > max_tokens words returned exactly the windows
\* words[k*(max-overlap) : min(k*(max-overlap)+max, W)], k = 0, 1, ... up to the
\* first window that reaches W, each joined by single spaces; the last one is
\* emitted once, every word index is in some window and consecutive windows
\* share exactly overlap word positions.  For W <= max_tokens the result is the
\* text itself as the only chunk, for the empty text the empty list.
C10_ChunkWindows ==
    (ck_pc = "done" /\ overlap < max_tokens) =>
        LET ws == Split(text)
            W == Len(ws)
        IN  /\ text = <<>> => chunks = <<>>
            /\ (text # <<>> /\ W <= max_tokens) => chunks = <<text>>
            /\ W > max_tokens =>
                /\ windows = ClosedWindows(W, max_tokens, overlap)
                /\ Len(chunks) = Len(windows)
                /\ \A k \in 1..Len(chunks) :
                       chunks[k] = Join(SubSeq(ws, windows[k][1] + 1, windows[k][2]))
                /\ \A k \in 1..(Len(windows) - 1) : windows[k][2] < W
                /\ windows[Len(windows)][2] = W
                /\ \A i \in 0..(W - 1) : \E k \in 1..Len(windows) : i \in WindowIdx(windows[k])
                /\ \A k \in 1..(Len(windows) - 1) :
                       Cardinality(WindowIdx(windows[k]) \cap WindowIdx(windows[k + 1])) = overlap

\* a finished call with three windows and a positive overlap
C10_Witness ==
    /\ ck_pc = "done"
    /\ overlap > 0
    /\ Len(Split(text)) > max_tokens
    /\ Len(chunks) >= 3

---------------------------------------------------------------------------
(* C16 *)

\* an iteration after which the loop goes on moves start by
\* max_tokens - overlap, which is forward when overlap < max_tokens
ChunkProgress ==
    (ck_pc = "loop" /\ ck_pc' = "loop") =>
        /\ start' = start + max_tokens - overlap
        /\ overlap < max_tokens => start' > start

\* the loop is left by the first window whose end is the word count
ChunkExit ==
    (ck_pc = "loop" /\ ck_pc' = "done") =>
        /\ windows' # <<>>
        /\ windows'[Len(windows')][2] = Len(words)
        /\ \A k \in 1..(Len(windows') - 1) : windows'[k][2] < Len(words)

\* C16: for every text, max_tokens >= 1 and 0 <= overlap < max_tokens the
\* call of chunk_text ends: the start index grows in every iteration that
\* is followed by another, the loop is left at the first window whose end
\* reaches the word count, and the call returns.  The progress of an
\* iteration is max_tokens - overlap.
C16_ChunkTerminates ==
    /\ [][ChunkProgress]_vars
    /\ [][ChunkExit]_vars
    /\ (max_tokens >= 1 /\ overlap < max_tokens) ~> (ck_pc = "done")

\* a finished call whose windows moved by one word: overlap = max_tokens - 1
C16_Witness ==
    /\ ck_pc = "done"
    /\ max_tokens >= 2
    /\ overlap = max_tokens - 1
    /\ Len(windows) >= 3
    /\ \A k \in 1..(Len(windows) - 1) : windows[k + 1][1] = windows[k][1] + 1

---------------------------------------------------------------------------
(* The documents of the input directory *)

DocCorrupt == Document("corrupt", 0, <<>>, <<>>, {})

\* a scanned document: it opens, and no page has text
DocScan == Document("ok", 1, <<>>, << <<>> >>, {})

\* median 10pt; headings Intro (H1, p.1), ab (H3, p.1), ab (H2, p.3)
DocReport ==
    Document("ok", 3,
             <<Block(T_Intro, 14, FALSE, 50, 1, 10),
               Block(T_Note, 8, FALSE, 50, 1, 50),
               Block(T_Body, 10, FALSE, 50, 1, 80),
               Block(T_Body, 12, FALSE, 50, 3, 10),
               Block(T_Note, 8, FALSE, 50, 3, 50)>>,
             << <<"Table", " ", "1", "\n">>,
                <<"plain", "\t", "text", "\n">>,
                <<"$", "5", " ", "million">> >>,
             {})

\* median 10pt; every block is a heading: three on each of the two pages
DocLong ==
    Document("ok", 2,
             <<Block(T_Intro, 14, FALSE, 50, 1, 10),
               Block(T_Body, 10, FALSE, 50, 1, 50),
               Block(T_Note, 10, FALSE, 50, 1, 80),
               Block(T_Intro, 14, FALSE, 50, 2, 10),
               Block(T_Body, 10, FALSE, 50, 2, 50),
               Block(T_Note, 10, FALSE, 50, 2, 80)>>,
             << <<"plain">>, <<"text", " ", " ", "plain">> >>,
             {})

\* DocReport with a page 2 that the engine cannot read: no blocks come from
\* it and its get_text() raises
DocTorn ==
    Document("ok", 3,
             <<Block(T_Intro, 14, FALSE, 50, 1, 10),
               Block(T_Note, 8, FALSE, 50, 1, 50),
               Block(T_Body, 10, FALSE, 50, 1, 80),
               Block(T_Body, 12, FALSE, 50, 3, 10),
               Block(T_Note, 8, FALSE, 50, 3, 50)>>,
             << <<"Table", " ", "1", "\n">>,
                <<>>,
                <<"$", "5", " ", "million">> >>,
             {2})

DocPool == {DocCorrupt, DocScan, DocReport, DocLong, DocTorn}

\* extract_outline over the documents of the input directory, tabulated
OutlineOf == [d \in DocPool |-> extract_outline(d)]

---------------------------------------------------------------------------
(* utils.validate_pdf *)

max_page_count == 50

validate_pdf(doc) ==
    IF doc.file = "missing" THEN FALSE
    ELSE IF doc.file = "empty" THEN FALSE
    ELSE IF ~Opens(doc) THEN FALSE
    ELSE IF doc.npages = 0 \/ doc.npages > max_page_count THEN FALSE
    ELSE TRUE

---------------------------------------------------------------------------
(* DocumentProcessor.process_round_1a: what the task of one document gives. *)
(* raised tells whether the call ended by an exception (future.result()    *)
(* then raises it again).                                                  *)

Returned(v) == [raised |-> FALSE, value |-> v]

ErrorResult1A(msg, name) == [error |-> msg, filename |-> name, round |-> "1A"]

\* lines 67-73 left out: the exception propagates
process_round_1a_uncaught(doc, name) ==
    IF ~validate_pdf(doc) THEN [raised |-> TRUE, value |-> "Invalid PDF file"]
    ELSE IF ~OutlineOf[doc].ok
         THEN [raised |-> TRUE, value |-> OutlineOf[doc].error]
         ELSE Returned([title |-> OutlineOf[doc].title,
                        outline |-> OutlineOf[doc].outline,
                        metadata |-> [filename |-> name, round |-> "1A"]])

process_round_1a(doc, name) ==
    IF ~validate_pdf(doc) THEN Returned(ErrorResult1A("Invalid PDF file", name))
    ELSE IF ~OutlineOf[doc].ok
         THEN Returned(ErrorResult1A(OutlineOf[doc].error, name))
         ELSE Returned([title |-> OutlineOf[doc].title,
                        outline |-> OutlineOf[doc].outline,
                        metadata |-> [filename |-> name, round |-> "1A"]])

---------------------------------------------------------------------------
(* DocumentProcessor.process_all_pdfs: the parallel outline pass *)

\* every document is written to one shared path
OutlinePathShared(name) == [stem |-> 0, file |-> "_outline.json"]

\* output_dir / f"{pdf_path.stem}_outline.json"
OutlinePath(name) == [stem |-> name, file |-> "_outline.json"]

\* open(path, 'w') and json.dump: the file at path now holds content
WriteFile(fs, path, content) ==
    [q \in (DOMAIN fs) \cup {path} |-> IF q = path THEN content ELSE fs[q]]

\* the history of writes, one more at path
CountWrite(ws, path) ==
    [q \in (DOMAIN ws) \cup {path} |->
        IF q = path THEN (IF q \in DOMAIN ws THEN ws[q] + 1 ELSE 1) ELSE ws[q]]

Docs == DOMAIN task

Running == {i \in Docs : task[i] = "running"}

Queued == {i \in Docs : task[i] = "queued"}

MainInit ==
    /\ pdf_files \in SeqsUpTo(DocPool, MaxDocs)
    /\ max_workers \in 1..MaxWorkers
    /\ main_pc = "start"
    /\ submitted = 0
    /\ task = [i \in 1..Len(pdf_files) |-> "new"]
    /\ future = [i \in 1..Len(pdf_files) |-> <<>>]
    /\ yielded = {}
    /\ sink = <<>>
    /\ writes = <<>>
    /\ query = <<>>
    /\ valid_pdfs = <<>>
    /\ rk_i = 0
    /\ all_sections = <<>>
    /\ similarities = <<>>
    /\ sim_failed = FALSE
    /\ ranked = <<>>
    /\ score_runs = 0
    /\ rk_result = <<>>

\* lines 126-129 and 159-162: no PDF in the input directory, both passes return
NoPdfFiles ==
    /\ main_pc = "start"
    /\ pdf_files = <<>>
    /\ main_pc' = "done"
    /\ UNCHANGED <<pdf_files, max_workers, submitted, task, future, yielded, sink,
                   writes>>
    /\ UNCHANGED <<rankvars, ckvars, olvars, scvars>>

\* lines 126-134: the executor is created
StartPool ==
    /\ main_pc = "start"
    /\ pdf_files # <<>>
    /\ main_pc' = "submit"
    /\ UNCHANGED <<pdf_files, max_workers, submitted, task, future, yielded, sink,
                   writes>>
    /\ UNCHANGED <<rankvars, ckvars, olvars, scvars>>

\* lines 135-138: executor.submit for the next document, in list order
Submit ==
    /\ main_pc = "submit"
    /\ submitted < Len(pdf_files)
    /\ submitted' = submitted + 1
    /\ task' = [task EXCEPT ![submitted + 1] = "queued"]
    /\ main_pc' = IF submitted + 1 = Len(pdf_files) THEN "collect" ELSE "submit"
    /\ UNCHANGED <<pdf_files, max_workers, future, yielded, sink, writes>>
    /\ UNCHANGED <<rankvars, ckvars, olvars, scvars>>

\* a worker thread takes the oldest queued task; at most max_workers threads
WorkerStart(i) ==
    /\ task[i] = "queued"
    /\ \A j \in Queued : i <= j
    /\ Cardinality(Running) < max_workers
    /\ task' = [task EXCEPT ![i] = "running"]
    /\ UNCHANGED <<pdf_files, max_workers, main_pc, submitted, future, yielded, sink,
                   writes>>
    /\ UNCHANGED <<rankvars, ckvars, olvars, scvars>>

\* the task's call of process_round_1a ends and sets its future
WorkerFinish(i) ==
    /\ task[i] = "running"
    /\ task' = [task EXCEPT ![i] = "finished"]
    /\ future' = [future EXCEPT ![i] = process_round_1a(pdf_files[i], i)]
    /\ UNCHANGED <<pdf_files, max_workers, main_pc, submitted, yielded, sink,
                   writes>>
    /\ UNCHANGED <<rankvars, ckvars, olvars, scvars>>

\* lines 140-152: as_completed yields a finished future not yet yielded, and
\* the loop body writes its result, or logs if future.result() raises.  After
\* the last one the with block ends, process_all_pdfs returns (its locals and
\* the executor are gone) and the ranking pass begins.
Collect(i) ==
    /\ main_pc = "collect"
    /\ task[i] = "finished"
    /\ i \notin yielded
    /\ IF future[i].raised
       THEN UNCHANGED <<sink, writes>>
       ELSE /\ sink' = WriteFile(sink, OutlinePath(i), future[i].value)
            /\ writes' = CountWrite(writes, OutlinePath(i))
    /\ IF yielded \cup {i} = Docs
       THEN /\ main_pc' = "1b"
            /\ yielded' = {}
            /\ task' = <<>>
            /\ future' = <<>>
            /\ submitted' = 0
            /\ max_workers' = 0
       ELSE /\ main_pc' = "collect"
            /\ yielded' = yielded \cup {i}
            /\ UNCHANGED <<task, future, submitted, max_workers>>
    /\ UNCHANGED pdf_files
    /\ UNCHANGED <<rankvars, ckvars, olvars, scvars>>

PoolNext ==
    \/ NoPdfFiles
    \/ StartPool
    \/ Submit
    \/ \E i \in Docs : WorkerStart(i)
    \/ \E i \in Docs : WorkerFinish(i)
    \/ \E i \in Docs : Collect(i)

---------------------------------------------------------------------------
(* PersonaRanker: section segmentation *)

chunk_max_tokens == 200
chunk_overlap == 50

\* str.replace of "\n" and "\t" by " "
ReplaceNewlines(t) == [i \in 1..Len(t) |-> IF t[i] \in {"\n", "\t"} THEN " " ELSE t[i]]

\* str.strip
RECURSIVE StripLeft(_)
StripLeft(t) ==
    IF t # <<>> /\ Head(t) \in Whitespace THEN StripLeft(Tail(t)) ELSE t

RECURSIVE StripRight(_)
StripRight(t) ==
    IF t # <<>> /\ t[Len(t)] \in Whitespace THEN StripRight(SubSeq(t, 1, Len(t) - 1)) ELSE t

Strip(t) == StripRight(StripLeft(t))

_clean_text(t) == Strip(ReplaceNewlines(Join(Split(t))))

\* line 133: the page the section runs to
EndPage(outline, i, npages) ==
    IF i + 1 <= Len(outline) THEN outline[i + 1].page ELSE npages

\* line 137: the pages (1-based: doc[page_num] is page page_num + 1) that
\* range(start_page - 1, min(end_page, len(doc))) visits, in order
PagesRead(start_page, end_page, npages) ==
    [k \in 1..(Min(end_page, npages) - (start_page - 1)) |-> (start_page - 1) + k]

\* lines 136-140: section_text
SectionText(doc, pages) ==
    Flatten([k \in 1..Len(pages) |-> doc.page_text[pages[k]] \o <<"\n">>])

\* lines 130-157: the section of heading i, or "skipped" when reading it raises.
\* hidx, end_page and pages_read are history: the heading's index and the
\* boundaries used; they are not keys of the section dict.
SectionOf(doc, outline, i) ==
    LET start_page == outline[i].page
        end_page == EndPage(outline, i, doc.npages)
        pages == PagesRead(start_page, end_page, doc.npages)
        cleaned_text == _clean_text(SectionText(doc, pages))
    IN  IF \E k \in 1..Len(pages) : pages[k] \in doc.bad_pages
        THEN [skipped |-> TRUE]
        ELSE [skipped |-> FALSE,
              section_title |-> outline[i].text,
              level |-> outline[i].level,
              page |-> outline[i].page,
              text |-> cleaned_text,
              chunks |-> chunk_text(cleaned_text, chunk_max_tokens, chunk_overlap),
              importance_rank |-> 0,
              hidx |-> i,
              end_page |-> end_page,
              pages_read |-> pages]

\* the try of lines 130-157 left out: the first section that fails ends the
\* loop, and the handler of line 161 returns the sections made so far
_extract_full_sections_abort(doc, outline_result) ==
    IF ~Opens(doc) THEN <<>>
    ELSE LET secs == [i \in 1..Len(outline_result.outline) |->
                         SectionOf(doc, outline_result.outline, i)]
             failed == {i \in 1..Len(secs) : secs[i].skipped}
         IN  SubSeq(secs, 1, Len(secs) - Cardinality({i \in 1..Len(secs) :
                                 \E j \in failed : j <= i}))

_extract_full_sections(doc, outline_result) ==
    IF ~Opens(doc) THEN <<>>
    ELSE SelectSeq([i \in 1..Len(outline_result.outline) |->
                        SectionOf(doc, outline_result.outline, i)],
                   LAMBDA sec : ~sec.skipped)

\* _extract_full_sections over the documents whose outline is extracted,
\* tabulated
SectionsOf ==
    [d \in {e \in DocPool : OutlineOf[e].ok} |-> _extract_full_sections(d, OutlineOf[d])]

\* lines 88-90: section["document"] = pdf_path.name.  The key relevance_score
\* is absent until line 193 sets it; 0 stands for absent.
WithDocument(sec, name) ==
    [section_title |-> sec.section_title, level |-> sec.level, page |-> sec.page,
     text |-> sec.text, chunks |-> sec.chunks, importance_rank |-> sec.importance_rank,
     document |-> name, relevance_score |-> 0,
     hidx |-> sec.hidx, end_page |-> sec.end_page, pages_read |-> sec.pages_read]

\* lines 81-94: the sections one document adds to all_sections
SectionsOfDocument(doc, name) ==
    IF ~OutlineOf[doc].ok THEN <<>>
    ELSE [k \in 1..Len(SectionsOf[doc]) |-> WithDocument(SectionsOf[doc][k], name)]

---------------------------------------------------------------------------
(* PersonaRanker: scoring.  Similarities and sub-scores are in hundredths,  *)
(* weights in hundredths, the relevance score in ten-thousandths.          *)

w_semantic_similarity == 55
w_level_weight == 25
w_recency_factor == 15
w_content_boost == 5
recency_score == 50
top_sections == 10

\* the lookup has no default: an unknown level weighs nothing
level_weights_no_default(level) ==
    CASE level = "H1" -> 100
      [] level = "H2" -> 70
      [] level = "H3" -> 40
      [] level = "title" -> 120
      [] OTHER -> 0

\* self.level_weights.get(level, 0.5)
level_weights(level) ==
    CASE level = "H1" -> 100
      [] level = "H2" -> 70
      [] level = "H3" -> 40
      [] level = "title" -> 120
      [] OTHER -> 50

\* the keyword lists of lines 278, 279, 283 and 284
query_data_keywords == {"data", "methodology", "analysis", "research"}

text_data_keywords == {"table", "figure", "chart", "graph", "dataset"}

query_financial_keywords == {"revenue", "profit", "financial", "earnings"}

text_financial_keywords == {"$", "million", "billion", "percentage", "%"}

\* any(keyword in s for keyword in kws), s a string
AnyKeyword(s, kws) == \E kw \in kws : Contains(s, kw)

\* lines 275-287 on text_lower and query_lower
BoostOfLowered(text_lower, query_lower) ==
    LET data == IF AnyKeyword(query_lower, query_data_keywords)
                   /\ AnyKeyword(text_lower, text_data_keywords)
                THEN 30 ELSE 0
        fin == IF AnyKeyword(query_lower, query_financial_keywords)
                  /\ AnyKeyword(text_lower, text_financial_keywords)
               THEN 20 ELSE 0
    IN  Min(data + fin, 100)

_calculate_content_boost(t, q) == BoostOfLowered(Lower(Str(t)), Lower(Str(q)))

_calculate_section_score(section, similarity, q) ==
    w_semantic_similarity * similarity
    + w_level_weight * level_weights(section.level)
    + w_recency_factor * recency_score
    + w_content_boost * _calculate_content_boost(section.text, q)

\* The similarity backend is outside the repository.  A backend is given by
\* the set of words it finds relevant to the query: the similarity of a text
\* is the share of its words that are relevant, in hundredths.
SimVocabulary == {<<"plain">>, <<"text">>}

BackendSim(relevant, t) ==
    LET ws == Split(t)
    IN  IF ws = <<>> THEN 0
        ELSE (100 * Cardinality({i \in 1..Len(ws) : ws[i] \in relevant})) \div Len(ws)

\* the answer to a failed backend is no list at all
ZeroSimilaritiesNone(texts) == <<>>

\* [0.0] * len(texts)
ZeroSimilarities(texts) == [i \in 1..Len(texts) |-> 0]

_calculate_semantic_similarity(texts, relevant, fails) ==
    IF fails THEN ZeroSimilarities(texts)
    ELSE [i \in 1..Len(texts) |-> BackendSim(relevant, texts[i])]

_calculate_tfidf_similarity(texts, relevant, fails, have_sklearn) ==
    IF ~have_sklearn THEN ZeroSimilarities(texts)
    ELSE IF fails THEN ZeroSimilarities(texts)
    ELSE [i \in 1..Len(texts) |-> BackendSim(relevant, texts[i])]

\* sorted(..., reverse=True) keeps equal scores in their order
SortsBeforeUnstable(x, y) == x.relevance_score >= y.relevance_score

\* x goes before y in sorted(sections, key=relevance_score, reverse=True),
\* x being later in the input than y
SortsBefore(x, y) == x.relevance_score > y.relevance_score

RECURSIVE InsertSection(_, _)
InsertSection(s, x) ==
    IF s = <<>> THEN <<x>>
    ELSE IF SortsBefore(x, Head(s)) THEN <<x>> \o s
    ELSE <<Head(s)>> \o InsertSection(Tail(s), x)

RECURSIVE SortSectionsFrom(_, _)
SortSectionsFrom(done, todo) ==
    IF todo = <<>> THEN done
    ELSE SortSectionsFrom(InsertSection(done, Head(todo)), Tail(todo))

\* line 201 numbers from zero
ImportanceRankZeroBased(i) == i - 1

\* line 201: the rank of the section at the i-th place (i = 1, 2, ...; the
\* code's enumerate index is i - 1)
ImportanceRank(i) == (i - 1) + 1

\* lines 190-203: scores, the sort and the ranks
RankWith(sections, sims, q) ==
    LET scored == [i \in 1..Len(sections) |->
                      [sections[i] EXCEPT
                          !.relevance_score =
                              _calculate_section_score(sections[i], sims[i], q),
                          !.importance_rank = 0]]
        srt == SortSectionsFrom(<<>>, scored)
    IN  [i \in 1..Len(srt) |-> [srt[i] EXCEPT !.importance_rank = ImportanceRank(i)]]

\* line 107: ranked_sections[:10]
TopSections(rs) == SubSeq(rs, 1, Min(top_sections, Len(rs)))

\* the check of line 96 never fires
NoSectionsNever(sections) == FALSE

\* line 96: not all_sections
NoSections(sections) == sections = <<>>

---------------------------------------------------------------------------
(* SpecScore: _calculate_section_score on one section, similarity and query *)

ScoreLevels == {"H1", "H2", "H3", "title", "H4", ""}

ScoreTexts ==
    {<<"Table", " ", "3", " ", "shows", " ", "revenue", " ", "of", " ", "$", "2",
       " ", "million">>,
     <<"plain", " ", "text">>,
     <<"DATASETS">>,
     <<"Bar", "charts">>,
     <<"up", " ", "5", "%">>,
     <<"research", " ", "on", " ", "profit">>,
     <<>>}

ScoreQueries ==
    {<<"quarterly", " ", "revenue", " ", "analysis">>,
     <<"Researcher", ":", " ", "exam">>,
     <<"Student", ":", " ", "exam">>,
     <<"Trader", ":", " ", "PROFITS">>,
     <<"table", " ", "of", " ", "$", " ", "million">>}

\* similarities in hundredths; a cosine similarity may be negative
ScoreSimilarities == {-25, 0, 37, 100}

ScoreInit ==
    /\ sc_section \in [level : ScoreLevels, text : ScoreTexts]
    /\ sc_similarity \in ScoreSimilarities
    /\ sc_query \in ScoreQueries
    /\ sc_score = 0
    /\ sc_boost = 0
    /\ sc_pc = "call"

\* one call of _calculate_section_score; sc_boost records the content_score
\* of line 255
ScoreCall ==
    /\ sc_pc = "call"
    /\ sc_score' = _calculate_section_score(sc_section, sc_similarity, sc_query)
    /\ sc_boost' = _calculate_content_boost(sc_section.text, sc_query)
    /\ sc_pc' = "done"
    /\ UNCHANGED <<sc_section, sc_similarity, sc_query>>
    /\ UNCHANGED <<ckvars, olvars, mainvars>>

ScoreNext == ScoreCall

InitScore == ScoreInit /\ ChunkIdle /\ OutlineIdle /\ MainIdle

SpecScore == InitScore /\ [][ScoreNext]_vars

---------------------------------------------------------------------------
(* C11 *)

\* the level weight the claim names, in hundredths
ClaimedLevelWeight(level) ==
    IF level = "H1" THEN 100
    ELSE IF level = "H2" THEN 70
    ELSE IF level = "H3" THEN 40
    ELSE IF level = "title" THEN 120
    ELSE 50

\* C11: for every section, similarity and query the relevance score is
\* 0.55 * semantic + 0.25 * levelWeight + 0.15 * 0.5 + 0.05 * contentBoost
\* (here in ten-thousandths), levelWeight being 1.0 for H1, 0.7 for H2, 0.4
\* for H3, 1.2 for the title level and 0.5 for any other level; the recency
\* term is the same 0.15 * 0.5 for every section and query.
C11_ScoreFormula ==
    sc_pc = "done" =>
        sc_score = 55 * sc_similarity + 25 * ClaimedLevelWeight(sc_section.level)
                       + 15 * 50 + 5 * sc_boost

\* a scored section of a level that is none of H1, H2, H3 and title, with a
\* similarity and a content boost that are not zero
C11_Witness ==
    /\ sc_pc = "done"
    /\ sc_section.level = "H4"
    /\ sc_similarity = 37
    /\ sc_boost = 50
    /\ sc_score = 55 * 37 + 25 * 50 + 750 + 5 * 50

---------------------------------------------------------------------------
(* C12 *)

\* kw occurs in s whatever the case of the letters of s: at some position
\* every character of kw equals the lowered character of s
OccursIgnoringCase(s, kw) ==
    \E i \in 0..(Len(s) - Len(kw)) :
        \A k \in 1..Len(kw) : LowerChar(CharAt(s, i + k)) = CharAt(kw, k)

MentionsAny(t, kws) == \E kw \in kws : OccursIgnoringCase(Str(t), kw)

\* the text of the spec's example: "Table 3 shows revenue of $2 million"
ExampleText ==
    <<"Table", " ", "3", " ", "shows", " ", "revenue", " ", "of", " ", "$", "2",
      " ", "million">>

\* C12: the content boost is the sum, capped at 1.0 (here 100), of +0.3 iff
\* the query has a data keyword and the text a table/figure keyword, and
\* +0.2 iff the query has a financial keyword and the text a currency or
\* percentage marker; both can fire (0.5); a keyword of the query alone or
\* of the text alone gives nothing; keywords match as substrings whatever
\* the case.
C12_ContentBoost ==
    sc_pc = "done" =>
        LET qd == MentionsAny(sc_query, {"data", "methodology", "analysis", "research"})
            tt == MentionsAny(sc_section.text,
                              {"table", "figure", "chart", "graph", "dataset"})
            qf == MentionsAny(sc_query, {"revenue", "profit", "financial", "earnings"})
            tm == MentionsAny(sc_section.text,
                              {"$", "million", "billion", "percentage", "%"})
        IN  /\ sc_boost = (IF qd /\ tt THEN 30 ELSE 0) + (IF qf /\ tm THEN 20 ELSE 0)
            /\ sc_boost <= 100
            /\ ~(tt \/ tm) => sc_boost = 0
            /\ ~(qd \/ qf) => sc_boost = 0
            /\ (/\ sc_section.text = ExampleText
                /\ sc_query = <<"quarterly", " ", "revenue", " ", "analysis">>)
               => sc_boost = 50

\* the data bonus alone, by keywords that match only as substrings of words
\* in another case: "research" in "Researcher", "dataset" in "DATASETS"
C12_Witness ==
    /\ sc_pc = "done"
    /\ sc_query = <<"Researcher", ":", " ", "exam">>
    /\ sc_section.text = <<"DATASETS">>
    /\ sc_boost = 30

---------------------------------------------------------------------------
(* DocumentProcessor.process_persona_query / process_round_1b and           *)
(* PersonaRanker.rank_sections: the ranking pass                            *)

Queries ==
    {[persona |-> <<"Analyst">>, job |-> <<"Revenue", " ", "analysis">>],
     [persona |-> <<"Researcher">>, job |-> <<"exam">>],
     [persona |-> <<"Student">>, job |-> <<"exam">>]}

\* f"{persona}: {job_description}"
PersonaQuery(q) == q.persona \o <<":", " ">> \o q.job

PersonaPath == [stem |-> 0, file |-> "persona_ranking.json"]

ErrorResult1B(msg, q) ==
    [error |-> msg, persona |-> q.persona, job |-> q.job, round |-> "1B"]

\* main.py lines 77-90 and 164-172: the arguments, the validation of every
\* PDF; with no valid PDF the error result is written
Round1bValidate ==
    /\ main_pc = "1b"
    /\ \E q \in Queries :
        LET valid == SelectSeq([i \in 1..Len(pdf_files) |-> i],
                               LAMBDA i : validate_pdf(pdf_files[i]))
        IN  /\ query' = q
            /\ valid_pdfs' = valid
            /\ IF valid = <<>>
               THEN /\ rk_result' = ErrorResult1B("No valid PDFs found", q)
                    /\ sink' = WriteFile(sink, PersonaPath,
                                         ErrorResult1B("No valid PDFs found", q))
                    /\ writes' = CountWrite(writes, PersonaPath)
                    /\ main_pc' = "done"
                    /\ rk_i' = rk_i
               ELSE /\ rk_i' = 1
                    /\ main_pc' = "rank"
                    /\ UNCHANGED <<rk_result, sink, writes>>
    /\ UNCHANGED <<pdf_files, max_workers, submitted, task, future, yielded>>
    /\ UNCHANGED <<all_sections, similarities, sim_failed, ranked, score_runs>>
    /\ UNCHANGED <<ckvars, olvars, scvars>>

\* ranker.py lines 80-94: one iteration of the loop over pdf_paths
RankDoc ==
    /\ main_pc = "rank"
    /\ rk_i <= Len(valid_pdfs)
    /\ all_sections' = all_sections
                        \o SectionsOfDocument(pdf_files[valid_pdfs[rk_i]], valid_pdfs[rk_i])
    /\ rk_i' = rk_i + 1
    /\ UNCHANGED <<poolvars, query, valid_pdfs, similarities, sim_failed, ranked,
                   score_runs, rk_result>>
    /\ UNCHANGED <<ckvars, olvars, scvars>>

\* the behaviours of the similarity backend in one call: it raises, or it
\* answers by the words it finds relevant
BackendBehaviours ==
    {[fails |-> TRUE, relevant |-> {}]}
    \cup {[fails |-> FALSE, relevant |-> r] : r \in SUBSET SimVocabulary}

\* line 100-113 of ranker.py and 96-110 of main.py: the result of a ranking
RankingResult(rs, n, valid, q) ==
    [extracted_sections |-> TopSections(rs),
     total_sections |-> n,
     metadata |-> [documents |-> valid, persona |-> q.persona, job |-> q.job,
                   round |-> "1B"]]

\* the dicts of all_sections are the dicts of ranked_sections: after the
\* ranking each carries its score and rank
Aliased(sections, rs) ==
    [i \in 1..Len(sections) |->
        rs[CHOOSE k \in 1..Len(rs) :
              rs[k].document = sections[i].document /\ rs[k].hidx = sections[i].hidx]]

\* ranker.py lines 96-117, main.py lines 93-119 and 167-170: after the loop.
\* mode is the backend the ranker was built with, b the backend's behaviour
\* in this call.
RankFinish ==
    /\ main_pc = "rank"
    /\ rk_i > Len(valid_pdfs)
    /\ IF NoSections(all_sections)
       THEN /\ rk_result' = ErrorResult1B("No sections extracted from any PDF", query)
            /\ UNCHANGED <<similarities, sim_failed, ranked, score_runs, all_sections>>
       ELSE \E mode \in {"embedding", "tfidf", "tfidf_no_sklearn"},
               b \in BackendBehaviours :
            /\ similarities' =
                 (LET texts == [i \in 1..Len(all_sections) |-> all_sections[i].text]
                  IN  IF mode = "embedding"
                      THEN _calculate_semantic_similarity(texts, b.relevant, b.fails)
                      ELSE _calculate_tfidf_similarity(texts, b.relevant, b.fails,
                                                       mode = "tfidf"))
            /\ sim_failed' = (b.fails /\ mode # "tfidf_no_sklearn")
            /\ score_runs' = score_runs + 1
            /\ IF Len(similarities') < Len(all_sections)
               THEN /\ rk_result' = ErrorResult1B("list index out of range", query)
                    /\ UNCHANGED <<ranked, all_sections>>
               ELSE /\ ranked' = RankWith(all_sections, similarities', PersonaQuery(query))
                    /\ all_sections' = Aliased(all_sections, ranked')
                    /\ rk_result' = RankingResult(ranked', Len(all_sections),
                                                  valid_pdfs, query)
    /\ sink' = WriteFile(sink, PersonaPath, rk_result')
    /\ writes' = CountWrite(writes, PersonaPath)
    /\ main_pc' = "done"
    /\ UNCHANGED <<pdf_files, max_workers, submitted, task, future, yielded>>
    /\ UNCHANGED <<query, valid_pdfs, rk_i>>
    /\ UNCHANGED <<ckvars, olvars, scvars>>

RankNext == Round1bValidate \/ RankDoc \/ RankFinish

Next == PoolNext \/ RankNext

Init == MainInit /\ ChunkIdle /\ OutlineIdle /\ ScoreIdle

Spec == Init /\ [][Next]_vars

---------------------------------------------------------------------------
(* Claims about the ranking pass and the outline pass *)

\* the heading list of the document a section comes from
OutlineOfSection(sec) == OutlineOf[pdf_files[sec.document]].outline

\* the pages start, start + 1, ..., end - 1
PageInterval(first, end) == [k \in 1..(end - first) |-> first + k - 1]

\* C2: every section's text is built from exactly the pages of the half-open
\* range [startPage, endPage), startPage the page of its heading and endPage
\* the page of the next heading, or pageCount + 1 for the last heading: the
\* page of the next heading is not read.
C2_HalfOpenPageRange ==
    \A k \in 1..Len(all_sections) :
        LET sec == all_sections[k]
            outline == OutlineOfSection(sec)
            endPage == IF sec.hidx + 1 <= Len(outline)
                       THEN outline[sec.hidx + 1].page
                       ELSE pdf_files[sec.document].npages + 1
        IN  sec.pages_read = PageInterval(sec.page, endPage)

\* C3: the sections of adjacent headings of one document meet and do not
\* overlap: the page range of the first ends where that of the second
\* starts, and no page is read for both.
C3_ContiguousNoOverlap ==
    \A k, l \in 1..Len(all_sections) :
        (/\ all_sections[k].document = all_sections[l].document
         /\ all_sections[l].hidx = all_sections[k].hidx + 1)
        => /\ all_sections[k].end_page = all_sections[l].page
           /\ Range(all_sections[k].pages_read) \cap Range(all_sections[l].pages_read) = {}

\* a ranking was produced
Ranked == main_pc = "done" /\ "extracted_sections" \in DOMAIN rk_result

\* s was discovered before t: earlier document of the input list, or the same
\* document and an earlier heading
DiscoveredBefore(s, t) ==
    \/ s.document < t.document
    \/ s.document = t.document /\ s.hidx < t.hidx

\* C4: the ranked list holds every candidate section once, in non-increasing
\* order of relevance score, and sections of equal score in the order of
\* their discovery (document order, then heading order).
C4_StableDescending ==
    Ranked =>
        /\ Len(ranked) = Len(all_sections)
        /\ \A i \in 1..Len(all_sections) : \E k \in 1..Len(ranked) :
               /\ ranked[k].document = all_sections[i].document
               /\ ranked[k].hidx = all_sections[i].hidx
               /\ ranked[k].section_title = all_sections[i].section_title
        /\ \A i \in 1..Len(all_sections) : \A j \in (i + 1)..Len(all_sections) :
               DiscoveredBefore(all_sections[i], all_sections[j])
        /\ \A i, j \in 1..Len(ranked) :
               i < j =>
                   \/ ranked[i].relevance_score > ranked[j].relevance_score
                   \/ /\ ranked[i].relevance_score = ranked[j].relevance_score
                      /\ DiscoveredBefore(ranked[i], ranked[j])

\* a ranking with a tie, and with a section moved ahead of one discovered
\* before it
C4_Witness ==
    /\ Ranked
    /\ \E i, j \in 1..Len(ranked) :
           i < j /\ ranked[i].relevance_score = ranked[j].relevance_score
    /\ \E i, j \in 1..Len(ranked) :
           i < j /\ DiscoveredBefore(ranked[j], ranked[i])

\* the candidate sections by the documents: those of every valid document
\* whose outline is extracted
RECURSIVE CandidateCount(_)
CandidateCount(names) ==
    IF names = <<>> THEN 0
    ELSE Len(SectionsOfDocument(pdf_files[Head(names)], Head(names)))
         + CandidateCount(Tail(names))

\* C5: with N >= 1 candidate sections the result holds the first min(10, N)
\* sections of the sorted order, the k-th with importance rank k, and
\* total_sections is N.
C5_TopTenDenseRanks ==
    Ranked =>
        LET N == CandidateCount(valid_pdfs)
            top == rk_result.extracted_sections
        IN  /\ N >= 1
            /\ Len(ranked) = N
            /\ Len(top) = Min(10, N)
            /\ \A k \in 1..Len(top) : top[k] = ranked[k] /\ top[k].importance_rank = k
            /\ rk_result.total_sections = N

\* more than ten candidates, with a tie among the ten returned
C5_Witness ==
    /\ Ranked
    /\ rk_result.total_sections > 10
    /\ Len(rk_result.extracted_sections) = 10
    /\ \E i, j \in 1..10 :
           i < j /\ rk_result.extracted_sections[i].relevance_score
                      = rk_result.extracted_sections[j].relevance_score

\* the outline pass is over
OutlinePassDone == main_pc \in {"1b", "rank", "done"} /\ pdf_files # <<>>

\* the ranking pass is over
RankingPassDone == main_pc = "done" /\ valid_pdfs # <<>>

\* the document cannot be processed by the outline pass
Fails1A(doc) == ~validate_pdf(doc) \/ ~OutlineOf[doc].ok

\* C6: whatever documents of the batch fail, every other document still has
\* its result: its outline is written by the outline pass and its sections
\* are candidates of the ranking pass, and a failing document's outline
\* result is an error marker.
C6_FailuresIsolated ==
    /\ OutlinePassDone =>
        \A i \in 1..Len(pdf_files) :
            /\ OutlinePath(i) \in DOMAIN sink
            /\ IF Fails1A(pdf_files[i])
               THEN /\ "error" \in DOMAIN sink[OutlinePath(i)]
                    /\ sink[OutlinePath(i)].filename = i
               ELSE /\ "outline" \in DOMAIN sink[OutlinePath(i)]
                    /\ sink[OutlinePath(i)].title = OutlineOf[pdf_files[i]].title
                    /\ sink[OutlinePath(i)].outline = OutlineOf[pdf_files[i]].outline
                    /\ sink[OutlinePath(i)].metadata.filename = i
    /\ RankingPassDone =>
        \A i \in 1..Len(pdf_files) :
            ~Fails1A(pdf_files[i]) =>
                LET secs == SectionsOf[pdf_files[i]]
                IN  /\ \A k \in 1..Len(secs) : \E m \in 1..Len(all_sections) :
                           /\ all_sections[m].document = i
                           /\ all_sections[m].hidx = secs[k].hidx
                           /\ all_sections[m].section_title = secs[k].section_title
                           /\ all_sections[m].text = secs[k].text
                    /\ secs # <<>> =>
                           /\ Ranked
                           /\ rk_result.total_sections >= Len(secs)

\* both passes over a batch with an invalid document, a document without
\* text and, after them, a document that is processed
C6_Witness ==
    /\ main_pc = "done"
    /\ Ranked
    /\ \E i, j, k \in 1..Len(pdf_files) :
           /\ i < k /\ j < k
           /\ ~validate_pdf(pdf_files[i])
           /\ validate_pdf(pdf_files[j]) /\ ~OutlineOf[pdf_files[j]].ok
           /\ ~Fails1A(pdf_files[k])
           /\ "error" \in DOMAIN sink[OutlinePath(i)]
           /\ "outline" \in DOMAIN sink[OutlinePath(k)]

\* C7: when no valid document yields a section, rank_sections fails with the
\* no-sections error: there is no ranking, the scoring and the sort never
\* ran, and process_round_1b gives the error result, written once.
C7_NoSectionsError ==
    (RankingPassDone /\ CandidateCount(valid_pdfs) = 0) =>
        /\ rk_result = ErrorResult1B("No sections extracted from any PDF", query)
        /\ "extracted_sections" \notin DOMAIN rk_result
        /\ score_runs = 0
        /\ ranked = <<>>
        /\ similarities = <<>>
        /\ sink[PersonaPath] = rk_result
        /\ writes[PersonaPath] = 1

\* a ranking pass over valid documents none of which has a section
C7_Witness ==
    /\ RankingPassDone
    /\ Len(valid_pdfs) >= 2
    /\ CandidateCount(valid_pdfs) = 0
    /\ "error" \in DOMAIN rk_result

\* the score of a section whose similarity is zero
ScoreWithoutSimilarity(sec, q) ==
    25 * level_weights(sec.level) + 750 + 5 * _calculate_content_boost(sec.text, q)

\* C8: when the similarity backend fails in a rank call, every section has
\* similarity 0, one value per section, and the call still gives the full
\* ranking, computed from the other sub-scores.
C8_BackendFailureZero ==
    (main_pc = "done" /\ sim_failed) =>
        /\ Len(similarities) = Len(all_sections)
        /\ \A i \in 1..Len(similarities) : similarities[i] = 0
        /\ Ranked
        /\ Len(ranked) = Len(all_sections)
        /\ rk_result.total_sections = Len(all_sections)
        /\ \A k \in 1..Len(ranked) :
               ranked[k].relevance_score
                   = ScoreWithoutSimilarity(ranked[k], PersonaQuery(query))

\* a failed backend and a ranking of sections with different scores
C8_Witness ==
    /\ main_pc = "done"
    /\ sim_failed
    /\ Ranked
    /\ Len(ranked) >= 2
    /\ ranked[1].relevance_score > ranked[Len(ranked)].relevance_score

OutlinePaths(fs) == {q \in DOMAIN fs : q.file = "_outline.json"}

\* C9: in the parallel outline pass, for every pool width and every order in
\* which the tasks run and complete, each document's result is written to
\* the document's own output, once: none is lost, written twice or
\* overwritten by the result of another document.
C9_OneResultPerDocument ==
    /\ \A q \in OutlinePaths(writes) : writes[q] = 1
    /\ OutlinePaths(sink) = OutlinePaths(writes)
    /\ main_pc = "collect" =>
        /\ \A i \in yielded :
               OutlinePath(i) \in DOMAIN sink /\ sink[OutlinePath(i)] = future[i].value
        /\ Cardinality(OutlinePaths(sink)) = Cardinality(yielded)
    /\ main_pc \in {"start", "submit"} => OutlinePaths(sink) = {}
    /\ OutlinePassDone =>
        /\ Cardinality(OutlinePaths(sink)) = Len(pdf_files)
        /\ \A i \in 1..Len(pdf_files) :
               /\ OutlinePath(i) \in DOMAIN sink
               /\ sink[OutlinePath(i)] = process_round_1a(pdf_files[i], i).value

\* two tasks ran at once and the second document's result was written while
\* the first document's task was still running
C9_Witness ==
    /\ main_pc = "collect"
    /\ Len(pdf_files) >= 3
    /\ max_workers >= 2
    /\ 2 \in yielded
    /\ task[1] = "running"
    /\ task[3] = "running"

---------------------------------------------------------------------------
(* C17 *)

\* the pages _extract_full_sections reads for heading h of the document
PagesOfHeading(doc, outline, h) ==
    {pg \in 1..doc.npages :
        /\ outline[h].page <= pg
        /\ pg <= (IF h < Len(outline) THEN outline[h + 1].page ELSE doc.npages)}

\* reading the text of the section of heading h fails
SectionFails(doc, outline, h) == PagesOfHeading(doc, outline, h) \cap doc.bad_pages # {}

\* the candidates that come from heading h of the document named name
SectionsFrom(name, h) ==
    {m \in 1..Len(all_sections) :
        all_sections[m].document = name /\ all_sections[m].hidx = h}

\* the documents rank_sections has been through
Segmented ==
    IF main_pc \in {"rank", "done"}
    THEN {valid_pdfs[k] : k \in 1..Min(rk_i - 1, Len(valid_pdfs))}
    ELSE {}

\* C17: when reading the text of one section of a document fails, that
\* section is skipped and the failure goes no further: every other heading
\* of the document has its section, the sections that remain are in heading
\* order, and the document and the rank call do not fail for it.
C17_SectionFailureSwallowed ==
    /\ \A name \in Segmented :
           OutlineOf[pdf_files[name]].ok =>
               LET doc == pdf_files[name]
                   outline == OutlineOf[doc].outline
               IN  /\ \A h \in 1..Len(outline) :
                          IF SectionFails(doc, outline, h)
                          THEN SectionsFrom(name, h) = {}
                          ELSE /\ Cardinality(SectionsFrom(name, h)) = 1
                               /\ \A m \in SectionsFrom(name, h) :
                                      /\ all_sections[m].section_title = outline[h].text
                                      /\ all_sections[m].level = outline[h].level
                                      /\ all_sections[m].page = outline[h].page
                   /\ \A m, n \in 1..Len(all_sections) :
                          (/\ all_sections[m].document = name
                           /\ all_sections[n].document = name
                           /\ m < n)
                          => all_sections[m].hidx < all_sections[n].hidx
    /\ (main_pc = "done" /\ all_sections # <<>>) =>
           /\ Ranked
           /\ rk_result.total_sections = Len(all_sections)

\* a finished ranking with a document whose second heading of three failed:
\* the first and the third are candidates, the second is not
C17_Witness ==
    /\ main_pc = "done"
    /\ Ranked
    /\ \E name \in Segmented :
           LET doc == pdf_files[name]
               outline == OutlineOf[doc].outline
           IN  /\ Len(outline) = 3
               /\ ~SectionFails(doc, outline, 1)
               /\ SectionFails(doc, outline, 2)
               /\ ~SectionFails(doc, outline, 3)
               /\ SectionsFrom(name, 1) # {}
               /\ SectionsFrom(name, 2) = {}
               /\ SectionsFrom(name, 3) # {}

=============================================================================
